---- MODULE Spec2Model ----
(***************************************************************************)
(* Model of app/src/ui/diff/index.tsx: the Diff component (loadDiff,       *)
(* diffHunkForIndex, onIncludeChanged) and the diff models it uses         *)
(* (DiffLine, DiffHunk, Diff.setAllLines, DiffSelectionParser,             *)
(* DiffSelection).                                                         *)
(*                                                                         *)
(* A DiffLine is [type, selected]; its text and line numbers never reach a *)
(* condition of the code modelled here.  A DiffHunk is [lines,             *)
(* unifiedDiffStart, unifiedDiffEnd]; a Diff is [hunks].  A JavaScript     *)
(* Map<number, boolean> is a sequence of [key, value] entries with         *)
(* distinct keys, in insertion order, which is the order Map.forEach and   *)
(* Map.values iterate in.                                                  *)
(***************************************************************************)
EXTENDS FiniteSets, Integers, Sequences, TLC

VARIABLES props, state, pending, emitted, consoleError, loadedFor, lastLoad,
          loads, call

vars == <<props, state, pending, emitted, consoleError, loadedFor, lastLoad,
          loads, call>>

compVars == <<props, state, pending, emitted, consoleError, loadedFor,
              lastLoad, loads>>

(***************************************************************************)
(* Bounds                                                                  *)
(***************************************************************************)
\* lines of a diff handed to the pure functions, and keys of a selection map
MaxLines == 3

\* componentWillReceiveProps calls in the life of one component
MaxLoads == 2

(***************************************************************************)
(* Enumerations                                                            *)
(***************************************************************************)
DiffLineType == {"Context", "Add", "Delete", "Hunk"}

DiffSelectionType == {"All", "Partial", "None"}

(***************************************************************************)
(* Map<number, boolean>                                                    *)
(***************************************************************************)
EmptyMap == <<>>

MapKeys(m) == {m[i].key : i \in DOMAIN m}

MapHas(m, k) == k \in MapKeys(m)

MapGet(m, k) == m[CHOOSE i \in DOMAIN m : m[i].key = k].value

\* Map.set: an existing key keeps its position, a new key is appended
MapSet(m, k, v) ==
    IF MapHas(m, k)
    THEN [i \in DOMAIN m |-> IF m[i].key = k THEN [key |-> k, value |-> v] ELSE m[i]]
    ELSE Append(m, [key |-> k, value |-> v])

\* Array.from(selection.values())
MapValues(m) == [i \in DOMAIN m |-> m[i].value]

(***************************************************************************)
(* DiffSelectionParser and DiffSelection                                   *)
(***************************************************************************)
\* parse with Array.some in place of Array.every
parseSome(selection) ==
    LET toArray == MapValues(selection)
    IN  [allSelected  |-> \E i \in DOMAIN toArray : toArray[i] = TRUE,
         noneSelected |-> \E i \in DOMAIN toArray : toArray[i] = FALSE]

parse(selection) ==
    LET toArray == MapValues(selection)
    IN  [allSelected  |-> \A i \in DOMAIN toArray : toArray[i] = TRUE,
         noneSelected |-> \A i \in DOMAIN toArray : toArray[i] = FALSE]

getState(selection) ==
    LET r == parse(selection)
    IN  IF r.allSelected THEN "All"
        ELSE IF r.noneSelected THEN "None"
        ELSE "Partial"

DiffSelection(include, selectedLines) ==
    [include |-> include, selectedLines |-> selectedLines]

\* getSelectionType without the size === 0 branch
getSelectionTypeNoDefault(sel) == getState(sel.selectedLines)

getSelectionType(sel) ==
    IF Len(sel.selectedLines) = 0
    THEN sel.include
    ELSE getState(sel.selectedLines)

(***************************************************************************)
(* DiffLine, DiffHunk, Diff                                                *)
(***************************************************************************)
\* new DiffLine(...): selected starts false
DiffLine(type) == [type |-> type, selected |-> FALSE]

DiffHunk(lines, unifiedDiffStart, unifiedDiffEnd) ==
    [lines |-> lines,
     unifiedDiffStart |-> unifiedDiffStart,
     unifiedDiffEnd |-> unifiedDiffEnd]

DiffModel(hunks) == [hunks |-> hunks]

IsSelectable(line) == line.type = "Add" \/ line.type = "Delete"

\* setAllLines without the test of the line's type
setAllLinesAnyType(diff, include) ==
    DiffModel([h \in DOMAIN diff.hunks |->
        LET hunk == diff.hunks[h]
        IN  [hunk EXCEPT !.lines =
                [l \in DOMAIN hunk.lines |->
                    [hunk.lines[l] EXCEPT !.selected = include]]]])

setAllLines(diff, include) ==
    DiffModel([h \in DOMAIN diff.hunks |->
        LET hunk == diff.hunks[h]
        IN  [hunk EXCEPT !.lines =
                [l \in DOMAIN hunk.lines |->
                    IF hunk.lines[l].type = "Add" \/ hunk.lines[l].type = "Delete"
                    THEN [hunk.lines[l] EXCEPT !.selected = include]
                    ELSE hunk.lines[l]]]])

NoHunk == [lines |-> <<>>, unifiedDiffStart |-> -1, unifiedDiffEnd |-> -2]

\* diffHunkForIndex with index < h.unifiedDiffEnd
diffHunkForIndexExclusiveEnd(diff, index) ==
    LET found == {h \in DOMAIN diff.hunks :
                    /\ index >= diff.hunks[h].unifiedDiffStart
                    /\ index < diff.hunks[h].unifiedDiffEnd}
    IN  IF found = {}
        THEN NoHunk
        ELSE diff.hunks[CHOOSE h \in found : \A g \in found : h <= g]

\* Array.find returns the first hunk, in array order, that satisfies the test
diffHunkForIndex(diff, index) ==
    LET found == {h \in DOMAIN diff.hunks :
                    /\ index >= diff.hunks[h].unifiedDiffStart
                    /\ index <= diff.hunks[h].unifiedDiffEnd}
    IN  IF found = {}
        THEN NoHunk
        ELSE diff.hunks[CHOOSE h \in found : \A g \in found : h <= g]

(***************************************************************************)
(* Diffs as the diff parser hands them over: the hunks partition the       *)
(* flattened line sequence, hunk k starting where hunk k-1 ended.          *)
(***************************************************************************)
SortedSeq(S) ==
    [k \in 1..Cardinality(S) |->
        CHOOSE x \in S : Cardinality({y \in S : y < x}) = k - 1]

\* flat: the lines of the whole diff; cuts: the positions after which a
\* hunk ends and the next one begins
MkDiff(flat, cuts) ==
    LET n == Len(flat)
        starts == IF n = 0 THEN <<>> ELSE SortedSeq({1} \cup {c + 1 : c \in cuts})
        endOf(s) == LET later == {c \in cuts : c >= s}
                    IN  IF later = {} THEN n
                        ELSE CHOOSE c \in later : \A d \in later : c <= d
    IN  DiffModel([k \in DOMAIN starts |->
            DiffHunk(SubSeq(flat, starts[k], endOf(starts[k])),
                     starts[k] - 1, endOf(starts[k]) - 1)])

TotalLines(diff) ==
    IF Len(diff.hunks) = 0 THEN 0
    ELSE diff.hunks[Len(diff.hunks)].unifiedDiffEnd + 1

\* the line at a global index of a well-formed diff
LineAt(diff, index) ==
    LET hunk == diffHunkForIndex(diff, index)
    IN  hunk.lines[index - hunk.unifiedDiffStart + 1]

SelectableIndices(diff) ==
    {i \in 0..(TotalLines(diff) - 1) : IsSelectable(LineAt(diff, i))}

(***************************************************************************)
(* Inputs of the pure functions                                            *)
(***************************************************************************)
\* lines carrying any flag
LineInputs == [type : DiffLineType, selected : BOOLEAN]

\* lines as parsed, no flag set yet
FreshLineInputs == {DiffLine(type) : type \in DiffLineType}

\* every split of up to MaxLines of the given lines into hunks
DiffInputs(lines) ==
    UNION {{MkDiff(flat, cuts) : flat \in [1..n -> lines],
                                 cuts \in SUBSET (1..(n - 1))} : n \in 0..MaxLines}

IndexInputs == (-2)..(MaxLines + 1)

MapInputs ==
    UNION {{m \in [1..n -> [key : 0..(MaxLines - 1), value : BOOLEAN]] :
                \A i, j \in 1..n : i # j => m[i].key # m[j].key} : n \in 0..MaxLines}

SelectionInputs ==
    {DiffSelection(include, m) : include \in DiffSelectionType, m \in MapInputs}

(***************************************************************************)
(* The component                                                           *)
(***************************************************************************)
NoSelection == DiffSelection("None", EmptyMap)

NoFile == [id |-> "null", wd |-> FALSE, selection |-> NoSelection]

NoCommit == "null"

\* a FileChange of a commit
FileChange(id) == [id |-> id, wd |-> FALSE, selection |-> NoSelection]

\* file instanceof WorkingDirectoryFileChange, with its file.selection
WorkingDirectoryFileChange(id, selection) ==
    [id |-> id, wd |-> TRUE, selection |-> selection]

\* a freshly parsed diff with lines of these types, a hunk starting at each
\* header line
ParsedDiff(types) ==
    MkDiff([i \in DOMAIN types |-> DiffLine(types[i])],
           {i - 1 : i \in {j \in DOMAIN types : j > 1 /\ types[j] = "Hunk"}})

\* the diffs LocalGitOperations.getDiff resolves to: no hunks (a binary or
\* unchanged file), one hunk with one or with two changed lines, two hunks
\* whose second header sits where the one-hunk diff has a changed line, and
\* the two hunks of lines 0..4 and 5..7 with changed lines in both
GetDiffResults ==
    {ParsedDiff(<<>>),
     ParsedDiff(<<"Hunk", "Add">>),
     ParsedDiff(<<"Hunk", "Context", "Add", "Delete">>),
     ParsedDiff(<<"Hunk", "Delete", "Hunk", "Add">>),
     ParsedDiff(<<"Hunk", "Context", "Add", "Delete", "Context",
                  "Hunk", "Add", "Delete">>)}

\* the selections a parent hands down: a fresh default one, or one carrying
\* the map the component last passed to props.onIncludeChanged
NextSelections ==
    {DiffSelection(include, EmptyMap) : include \in {"All", "None"}}
    \cup {DiffSelection(include, emitted[i]) :
            include \in {"All", "None"}, i \in DOMAIN emitted}

\* the (file, commit) pairs a parent hands down: nothing selected, a file
\* of a commit of the history, or a file of the working directory
NextPairs ==
    {[file |-> NoFile, commit |-> NoCommit],
     [file |-> FileChange("h"), commit |-> "c1"]}
    \cup {[file |-> WorkingDirectoryFileChange("a", sel), commit |-> NoCommit] :
            sel \in NextSelections}

Request(file, commit) == [file |-> file, commit |-> commit]

NoRequest == Request(NoFile, NoCommit)

RemoveAt(s, i) == [k \in 1..(Len(s) - 1) |-> IF k < i THEN s[k] ELSE s[k + 1]]

\* diffLine.selected = value, for the line at a global index (loadDiff)
setSelected(diff, index, value) ==
    LET hunk == diffHunkForIndex(diff, index)
    IN  IF hunk = NoHunk THEN diff
        ELSE LET relativeIndex == index - hunk.unifiedDiffStart
                 h == CHOOSE g \in DOMAIN diff.hunks :
                        /\ diff.hunks[g] = hunk
                        /\ \A f \in DOMAIN diff.hunks : diff.hunks[f] = hunk => g <= f
             IN  IF (relativeIndex + 1) \in DOMAIN hunk.lines
                 THEN [diff EXCEPT !.hunks[h].lines[relativeIndex + 1].selected = value]
                 ELSE diff

\* diffSelection.selectedLines.forEach(...) of loadDiff, from entry k on
RECURSIVE applySelectedLines(_, _, _)
applySelectedLines(diff, selectedLines, k) ==
    IF k > Len(selectedLines) THEN diff
    ELSE applySelectedLines(
            setSelected(diff, selectedLines[k].key, selectedLines[k].value),
            selectedLines, k + 1)

\* applySelection without the branch for a Partial selection
applySelectionNoPartial(file, diff) ==
    IF file.wd
    THEN LET selectionType == getSelectionType(file.selection)
             includeAll == IF selectionType = "All" THEN TRUE ELSE FALSE
         IN  setAllLines(diff, includeAll)
    ELSE diff

\* loadDiff after `await getDiff`: the line flags written into the new diff
applySelection(file, diff) ==
    IF file.wd
    THEN LET diffSelection == file.selection
             selectionType == getSelectionType(diffSelection)
         IN  IF selectionType = "Partial"
             THEN applySelectedLines(diff, diffSelection.selectedLines, 1)
             ELSE LET includeAll == IF selectionType = "All" THEN TRUE ELSE FALSE
                  IN  setAllLines(diff, includeAll)
    ELSE diff

\* "populate the current state of the diff" of onIncludeChanged: the
\* entries added from line l of hunk h on
RECURSIVE populate(_, _, _, _)
populate(diff, newDiffSelection, h, l) ==
    IF h > Len(diff.hunks) THEN newDiffSelection
    ELSE LET hunk == diff.hunks[h]
         IN  IF l > Len(hunk.lines) THEN populate(diff, newDiffSelection, h + 1, 1)
             ELSE LET line == hunk.lines[l]
                      absoluteIndex == hunk.unifiedDiffStart + (l - 1)
                  IN  IF line.type = "Add" \/ line.type = "Delete"
                      THEN populate(diff,
                                MapSet(newDiffSelection, absoluteIndex, line.selected),
                                h, l + 1)
                      ELSE populate(diff, newDiffSelection, h, l + 1)

\* newSelection without "populate the current state of the diff"
newSelectionUnseeded(diff, line, rowIndex) ==
    LET include == ~line.selected
    IN  MapSet(EmptyMap, rowIndex, include)

\* the map onIncludeChanged(line, rowIndex) passes to props.onIncludeChanged
newSelection(diff, line, rowIndex) ==
    LET include == ~line.selected
    IN  MapSet(populate(diff, EmptyMap, 1, 1), rowIndex, include)

Init ==
    /\ props \in {[file |-> NoFile, commit |-> NoCommit, onIncludeChanged |-> cb] :
                    cb \in BOOLEAN}
    /\ state = [diff |-> DiffModel(<<>>)]
    /\ pending = <<>>
    /\ emitted = <<>>
    /\ consoleError = FALSE
    /\ loadedFor = NoRequest
    /\ lastLoad = "none"
    /\ loads = 0
    /\ call = [op |-> "none"]

\* file && this.props.file && file.id === this.props.file.id
sameFile(file) ==
    file # NoFile /\ props.file # NoFile /\ file.id = props.file.id

\* sameCommit comparing nothing
sameCommitNever(commit) == FALSE

\* commit && this.props.commit && commit.sha === this.props.commit.sha
sameCommit(commit) ==
    commit # NoCommit /\ props.commit # NoCommit /\ commit = props.commit

\* componentWillReceiveProps(nextProps): loadDiff up to its await, after
\* which React installs nextProps as this.props; lastLoad records where
\* loadDiff left off: "cleared" (the return of line 85), "same" (the return
\* of line 102) or "requested" (the await of line 104)
componentWillReceiveProps(nextProps) ==
    LET file == nextProps.file
        commit == nextProps.commit
    IN  /\ loads < MaxLoads
        /\ loads' = loads + 1
        /\ props' = nextProps
        /\ IF file = NoFile
           THEN /\ state' = [diff |-> DiffModel(<<>>)]
                /\ loadedFor' = NoRequest
                /\ lastLoad' = "cleared"
                /\ UNCHANGED pending
           ELSE IF sameFile(file) /\ sameCommit(commit)
           THEN /\ lastLoad' = "same"
                /\ UNCHANGED <<state, loadedFor, pending>>
           ELSE /\ pending' = Append(pending, Request(file, commit))
                /\ lastLoad' = "requested"
                /\ UNCHANGED <<state, loadedFor>>
        /\ UNCHANGED <<emitted, consoleError, call>>

\* the getDiff request of pending[i] resolves with diff: the rest of loadDiff
getDiffResolved(i, diff) ==
    /\ i \in DOMAIN pending
    /\ state' = [diff |-> applySelection(pending[i].file, diff)]
    /\ loadedFor' = pending[i]
    /\ pending' = RemoveAt(pending, i)
    /\ UNCHANGED <<props, emitted, consoleError, lastLoad, loads, call>>

\* the getDiff request of pending[i] rejects: loadDiff's promise rejects at
\* the await and nothing after it runs
getDiffRejected(i) ==
    /\ i \in DOMAIN pending
    /\ pending' = RemoveAt(pending, i)
    /\ UNCHANGED <<props, state, emitted, consoleError, loadedFor, lastLoad,
                   loads, call>>

\* renderLine attaches a gutter to the line CodeMirror numbers rowIndex
Rendered(rowIndex) ==
    LET hunk == diffHunkForIndex(state.diff, rowIndex)
    IN  /\ hunk # NoHunk
        /\ (rowIndex - hunk.unifiedDiffStart + 1) \in DOMAIN hunk.lines

\* onIncludeChanged that also writes the new value into the toggled line
onIncludeChangedInPlace(rowIndex) ==
    /\ Rendered(rowIndex)
    /\ UNCHANGED <<props, pending, loadedFor, lastLoad, loads, call>>
    /\ LET line == LineAt(state.diff, rowIndex)
       IN  IF ~props.onIncludeChanged
           THEN UNCHANGED <<state, emitted, consoleError>>
           ELSE IF ~props.file.wd
           THEN consoleError' = TRUE /\ UNCHANGED <<state, emitted>>
           ELSE /\ emitted' = <<newSelection(state.diff, line, rowIndex)>>
                /\ state' = [diff |-> setSelected(state.diff, rowIndex, ~line.selected)]
                /\ UNCHANGED consoleError

\* onIncludeChanged without the instanceof WorkingDirectoryFileChange test
onIncludeChangedAnyFile(rowIndex) ==
    /\ Rendered(rowIndex)
    /\ UNCHANGED <<props, state, pending, loadedFor, lastLoad, loads, call>>
    /\ LET line == LineAt(state.diff, rowIndex)
       IN  IF ~props.onIncludeChanged
           THEN UNCHANGED <<emitted, consoleError>>
           ELSE /\ emitted' = <<newSelection(state.diff, line, rowIndex)>>
                /\ UNCHANGED consoleError

\* the gutter of line rowIndex calls onIncludeChanged(line, rowIndex);
\* consoleError records that the console.error of line 157 has run
onIncludeChanged(rowIndex) ==
    /\ Rendered(rowIndex)
    /\ UNCHANGED <<props, state, pending, loadedFor, lastLoad, loads, call>>
    /\ LET line == LineAt(state.diff, rowIndex)
       IN  IF ~props.onIncludeChanged
           THEN UNCHANGED <<emitted, consoleError>>
           ELSE IF ~props.file.wd
           THEN consoleError' = TRUE /\ UNCHANGED emitted
           ELSE /\ emitted' = <<newSelection(state.diff, line, rowIndex)>>
                /\ UNCHANGED consoleError

Next ==
    \/ \E pair \in NextPairs :
            componentWillReceiveProps(
                [file |-> pair.file, commit |-> pair.commit,
                 onIncludeChanged |-> props.onIncludeChanged])
    \/ \E i \in DOMAIN pending, diff \in GetDiffResults : getDiffResolved(i, diff)
    \/ \E i \in DOMAIN pending : getDiffRejected(i)
    \/ \E rowIndex \in 0..TotalLines(state.diff) : onIncludeChanged(rowIndex)

Spec == Init /\ [][Next]_vars

(***************************************************************************)
(* The pure functions applied to bounded inputs                            *)
(***************************************************************************)
getSelectionTypeCall(sel) ==
    /\ call' = [op |-> "getSelectionType", sel |-> sel,
                result |-> getSelectionType(sel)]
    /\ UNCHANGED compVars

diffHunkForIndexCall(diff, index) ==
    /\ call' = [op |-> "diffHunkForIndex", diff |-> diff, index |-> index,
                result |-> diffHunkForIndex(diff, index)]
    /\ UNCHANGED compVars

setAllLinesCall(diff, include) ==
    /\ call' = [op |-> "setAllLines", diff |-> diff, include |-> include,
                result |-> setAllLines(diff, include)]
    /\ UNCHANGED compVars

NextFn ==
    \/ /\ call.op = "none"
       /\ \E sel \in SelectionInputs : getSelectionTypeCall(sel)
    \/ /\ call.op = "none"
       /\ \E diff \in DiffInputs(FreshLineInputs), index \in IndexInputs : diffHunkForIndexCall(diff, index)
    \/ /\ call.op = "none"
       /\ \E diff \in DiffInputs(LineInputs), include \in BOOLEAN : setAllLinesCall(diff, include)

InitFn == Init /\ props.onIncludeChanged

SpecFn == InitFn /\ [][NextFn]_vars

(***************************************************************************)
(* Properties of the pure functions, checked under SpecFn                  *)
(***************************************************************************)
\* the entries of a map, whatever their order
MapEntries(m) == {m[i] : i \in DOMAIN m}

\* C2: for a selection whose selectedLines is not empty, getSelectionType is
\* All iff every value of the map is true, None iff every value is false,
\* and Partial otherwise; a map with the same entries in another insertion
\* order gives the same result.
C2_TriState ==
    (call.op = "getSelectionType" /\ Len(call.sel.selectedLines) > 0) =>
        LET m == call.sel.selectedLines
            allTrue == \A k \in MapKeys(m) : MapGet(m, k) = TRUE
            allFalse == \A k \in MapKeys(m) : MapGet(m, k) = FALSE
        IN  /\ (call.result = "All") <=> allTrue
            /\ (call.result = "None") <=> allFalse
            /\ (call.result = "Partial") <=> (~allTrue /\ ~allFalse)
            /\ \A other \in MapInputs :
                    MapEntries(other) = MapEntries(m) =>
                        getSelectionType(DiffSelection(call.sel.include, other))
                            = call.result

\* a map of both values, entered in an order that is not the order of its
\* keys, was summarised
C2_Witness ==
    /\ call.op = "getSelectionType"
    /\ Len(call.sel.selectedLines) = 3
    /\ call.sel.selectedLines[1].key > call.sel.selectedLines[2].key
    /\ call.sel.selectedLines[1].value # call.sel.selectedLines[3].value
    /\ call.result = "Partial"

\* C3: for a selection whose selectedLines is empty, getSelectionType is the
\* include value the selection was constructed with.
C3_DefaultFallback ==
    (call.op = "getSelectionType" /\ Len(call.sel.selectedLines) = 0) =>
        call.result = call.sel.include

\* an empty selection constructed with None was summarised
C3_Witness ==
    /\ call.op = "getSelectionType"
    /\ call.sel = DiffSelection("None", EmptyMap)
    /\ call.result = "None"

\* the hunks' ranges are contiguous, ordered and cover 0..totalLines-1, each
\* hunk holding one line per index of its range
WellFormed(diff) ==
    \A h \in DOMAIN diff.hunks :
        /\ diff.hunks[h].unifiedDiffStart =
                (IF h = 1 THEN 0 ELSE diff.hunks[h - 1].unifiedDiffEnd + 1)
        /\ diff.hunks[h].unifiedDiffEnd >= diff.hunks[h].unifiedDiffStart
        /\ Len(diff.hunks[h].lines) =
                diff.hunks[h].unifiedDiffEnd - diff.hunks[h].unifiedDiffStart + 1

InRange(hunk, index) ==
    hunk.unifiedDiffStart <= index /\ index <= hunk.unifiedDiffEnd

\* C8: on a diff with contiguous hunk ranges, diffHunkForIndex returns the
\* one hunk whose range holds the index when 0 <= index <= the last hunk's
\* end, and index - unifiedDiffStart is then a position of that hunk's
\* lines; it returns null when the index is negative or beyond the last
\* hunk's end, and for a diff without hunks.
C8_LookupCorrect ==
    (call.op = "diffHunkForIndex" /\ WellFormed(call.diff)) =>
        IF 0 <= call.index /\ call.index < TotalLines(call.diff)
        THEN /\ call.result # NoHunk
             /\ \E h \in DOMAIN call.diff.hunks : call.diff.hunks[h] = call.result
             /\ \A h \in DOMAIN call.diff.hunks :
                    InRange(call.diff.hunks[h], call.index)
                        <=> call.diff.hunks[h] = call.result
             /\ (call.index - call.result.unifiedDiffStart + 1)
                    \in DOMAIN call.result.lines
        ELSE call.result = NoHunk

\* the last index of the first of several hunks was looked up
C8_Witness ==
    /\ call.op = "diffHunkForIndex"
    /\ Len(call.diff.hunks) >= 2
    /\ call.index = call.diff.hunks[1].unifiedDiffEnd
    /\ call.index > 0
    /\ call.result = call.diff.hunks[1]

\* C9: setAllLines(b) leaves every Add and Delete line with selected = b and
\* every Context and Hunk line with the flag it had; the hunks, their order
\* and their index ranges stay as they were.
C9_BulkConsistency ==
    call.op = "setAllLines" =>
        /\ Len(call.result.hunks) = Len(call.diff.hunks)
        /\ \A h \in DOMAIN call.diff.hunks :
            LET before == call.diff.hunks[h]
                after == call.result.hunks[h]
            IN  /\ after.unifiedDiffStart = before.unifiedDiffStart
                /\ after.unifiedDiffEnd = before.unifiedDiffEnd
                /\ Len(after.lines) = Len(before.lines)
                /\ \A l \in DOMAIN before.lines :
                    /\ after.lines[l].type = before.lines[l].type
                    /\ after.lines[l].selected =
                        (IF before.lines[l].type \in {"Add", "Delete"}
                         THEN call.include
                         ELSE before.lines[l].selected)

\* setAllLines(true) ran on a diff of two hunks holding an unselected Delete
\* line and a Context line whose flag was set
C9_Witness ==
    /\ call.op = "setAllLines"
    /\ call.include = TRUE
    /\ Len(call.diff.hunks) = 2
    /\ \E h \in DOMAIN call.diff.hunks : \E l \in DOMAIN call.diff.hunks[h].lines :
            call.diff.hunks[h].lines[l] = [type |-> "Delete", selected |-> FALSE]
    /\ \E h \in DOMAIN call.diff.hunks : \E l \in DOMAIN call.diff.hunks[h].lines :
            /\ call.diff.hunks[h].lines[l] = [type |-> "Context", selected |-> TRUE]
            /\ call.result.hunks[h].lines[l].selected = TRUE

(***************************************************************************)
(* Properties of the component, checked under Spec                         *)
(***************************************************************************)
\* the request was made for the (file, commit) pair that is now active
SamePair(request, p) ==
    /\ request.file.id = p.file.id
    /\ request.commit = p.commit

\* C1: the result of a getDiff request is applied to the displayed diff only
\* while the (file, commit) pair it was requested for is the active one; the
\* result of a request superseded by a loadDiff for another pair, or for no
\* file, is discarded.
C1_Supersession ==
    [][\A i \in DOMAIN pending : \A diff \in GetDiffResults :
            getDiffResolved(i, diff) => SamePair(pending[i], props)]_vars

\* the active file is a working-directory file with a default-only selection
\* of All or None, and the displayed diff was loaded for it
DefaultOnlyLoaded ==
    /\ props.file.wd
    /\ props.file.selection.selectedLines = EmptyMap
    /\ props.file.selection.include \in {"All", "None"}
    /\ loadedFor = Request(props.file, props.commit)

\* the map has one entry per selectable line of the diff, the toggled line
\* holding the negation of the default and every other line the default
SeededFromDefault(m, diff, default, rowIndex) ==
    /\ MapKeys(m) = SelectableIndices(diff)
    /\ Len(m) = Cardinality(SelectableIndices(diff))
    /\ \A k \in MapKeys(m) :
            MapGet(m, k) = (IF k = rowIndex THEN ~default ELSE default)

\* C4: with a default-only selection (All or None) and the diff loaded for
\* it, a toggle of a selectable line emits a map with one entry per
\* selectable line of every hunk, the toggled line holding the negation of
\* the default and every other line the default; with more than one
\* selectable line the summary of that map is Partial.
C4_SeedPreservesOthers ==
    [][\A rowIndex \in SelectableIndices(state.diff) :
            (/\ props.onIncludeChanged
             /\ DefaultOnlyLoaded
             /\ onIncludeChanged(rowIndex)) =>
                /\ Len(emitted') = 1
                /\ SeededFromDefault(emitted'[1], state.diff,
                        props.file.selection.include = "All", rowIndex)
                /\ Cardinality(SelectableIndices(state.diff)) > 1 =>
                        getSelectionType(DiffSelection(props.file.selection.include,
                                                       emitted'[1])) = "Partial"]_vars

\* a line of a two-hunk diff loaded for a default-All selection was toggled:
\* the emitted map holds false for it and true for the three other lines
C4_Witness ==
    /\ DefaultOnlyLoaded
    /\ props.file.selection.include = "All"
    /\ Len(state.diff.hunks) = 2
    /\ Cardinality(SelectableIndices(state.diff)) = 4
    /\ Len(emitted) = 1
    /\ \E rowIndex \in SelectableIndices(state.diff) :
            SeededFromDefault(emitted[1], state.diff, TRUE, rowIndex)
    /\ getState(emitted[1]) = "Partial"

\* C5: when a toggle seeds the map, every selectable line other than the
\* toggled one receives its override if the selection has one for it and
\* the selection's default include value otherwise, also when the overrides
\* cover only some of the selectable lines of the loaded diff.
C5_SeedEffectiveState ==
    [][\A rowIndex \in SelectableIndices(state.diff) :
            (/\ props.onIncludeChanged
             /\ props.file.wd
             /\ props.file.selection.include \in {"All", "None"}
             /\ loadedFor = Request(props.file, props.commit)
             /\ onIncludeChanged(rowIndex)) =>
                /\ Len(emitted') = 1
                /\ \A k \in SelectableIndices(state.diff) \ {rowIndex} :
                    /\ MapHas(emitted'[1], k)
                    /\ MapGet(emitted'[1], k) =
                        (IF MapHas(props.file.selection.selectedLines, k)
                         THEN MapGet(props.file.selection.selectedLines, k)
                         ELSE props.file.selection.include = "All")]_vars

\* C6: a toggle whose index addresses a Context or Hunk line emits nothing:
\* no map with an entry for that index reaches props.onIncludeChanged.
C6_NonSelectableNoOp ==
    [][\A rowIndex \in 0..TotalLines(state.diff) :
            (/\ Rendered(rowIndex)
             /\ ~IsSelectable(LineAt(state.diff, rowIndex))
             /\ onIncludeChanged(rowIndex)) =>
                /\ emitted' = emitted
                /\ \A i \in DOMAIN emitted' : ~MapHas(emitted'[i], rowIndex)]_vars

\* C7: every key of the override map of the selection the displayed diff
\* was loaded with is the global index of an Add or Delete line of that
\* diff, and no Context or Hunk line of it has had its flag written.
C7_OverrideKeys ==
    loadedFor.file.wd =>
        /\ MapKeys(loadedFor.file.selection.selectedLines)
                \subseteq SelectableIndices(state.diff)
        /\ \A i \in 0..(TotalLines(state.diff) - 1) :
                ~IsSelectable(LineAt(state.diff, i)) =>
                    LineAt(state.diff, i).selected = FALSE

\* C10: when a getDiff request fails the component ends with the empty diff
\* displayed, and a loadDiff for the same file and commit then issues a new
\* request.
C10_FailureShowsEmpty ==
    [][\A i \in DOMAIN pending :
            getDiffRejected(i) =>
                /\ state'.diff = DiffModel(<<>>)
                /\ SamePair(pending[i], props) =>
                        ~(sameFile(props.file) /\ sameCommit(props.commit))]_vars

\* the props a parent hands down with a (file, commit) pair
NextProps(pair) ==
    [file |-> pair.file, commit |-> pair.commit,
     onIncludeChanged |-> props.onIncludeChanged]

\* C11 as stated: loadDiff with the file and the commit of the active props,
\* the commit present or absent, issues no getDiff request and leaves the
\* displayed diff and its line flags as they are.
C11_ReRequestNoOp ==
    [][\A pair \in NextPairs :
            (/\ pair.file # NoFile
             /\ pair.file = props.file
             /\ pair.commit = props.commit
             /\ componentWillReceiveProps(NextProps(pair))) =>
                /\ pending' = pending
                /\ state' = state]_vars

\* C11 as amended: loadDiff with the file and the commit of the active props
\* issues no getDiff request and leaves the displayed diff and its line
\* flags as they are when the commit is present; when the commit is absent
\* (working-tree diff) it issues a new getDiff request.
C11_ReRequestNoOpWithCommit ==
    [][\A pair \in NextPairs :
            (/\ pair.file # NoFile
             /\ pair.file.id = props.file.id
             /\ pair.commit = props.commit
             /\ componentWillReceiveProps(NextProps(pair))) =>
                /\ state' = state
                /\ pending' = (IF pair.commit # NoCommit
                               THEN pending
                               ELSE Append(pending, Request(pair.file, pair.commit)))]_vars

\* the file of commit c1 was handed down a second time: the first loadDiff
\* made the only request and the second returned at the same-pair test
C11_Witness ==
    /\ lastLoad = "same"
    /\ props.file = FileChange("h")
    /\ props.commit = "c1"
    /\ loads = 2
    /\ Len(pending) <= 1

\* the active file is a working-directory file with default None whose
\* selection is still default-only or holds one override per selectable
\* line of the displayed diff, and the diff was loaded with that selection:
\* the toggle before it, the selection update and the reload are complete
TogglesSettled ==
    /\ props.onIncludeChanged
    /\ props.file.wd
    /\ props.file.selection.include = "None"
    /\ loadedFor = Request(props.file, props.commit)
    /\ \/ props.file.selection.selectedLines = EmptyMap
       \/ MapKeys(props.file.selection.selectedLines) = SelectableIndices(state.diff)

\* the lines toggled so far: those the selection holds true
Toggled(selection) ==
    {k \in MapKeys(selection.selectedLines) : MapGet(selection.selectedLines, k)}

\* C12: from default None, with each toggle's selection update and reload
\* complete before the next toggle, the toggle of a selectable line not
\* toggled before emits a map with one entry per selectable line, true for
\* exactly the lines toggled so far and the line toggled now and false for
\* all others; its summary is Partial while a selectable line is untoggled
\* and All once every one has been toggled.
C12_TogglesAccumulate ==
    [][\A rowIndex \in SelectableIndices(state.diff) \ Toggled(props.file.selection) :
            (TogglesSettled /\ onIncludeChanged(rowIndex)) =>
                LET toggled == Toggled(props.file.selection) \cup {rowIndex}
                    selectable == SelectableIndices(state.diff)
                IN  /\ Len(emitted') = 1
                    /\ MapKeys(emitted'[1]) = selectable
                    /\ Len(emitted'[1]) = Cardinality(selectable)
                    /\ \A k \in selectable :
                            MapGet(emitted'[1], k) = (k \in toggled)
                    /\ getSelectionType(DiffSelection("None", emitted'[1])) =
                            (IF toggled = selectable THEN "All" ELSE "Partial")]_vars

\* the second of the two changed lines of a diff was toggled after the
\* first toggle's map came back as the selection and the diff was reloaded
\* with it: the emitted map holds true for both and its summary is All
C12_Witness ==
    /\ TogglesSettled
    /\ Cardinality(SelectableIndices(state.diff)) = 2
    /\ Cardinality(Toggled(props.file.selection)) = 1
    /\ Len(emitted) = 1
    /\ MapKeys(emitted[1]) = SelectableIndices(state.diff)
    /\ \A k \in MapKeys(emitted[1]) : MapGet(emitted[1], k) = TRUE
    /\ getSelectionType(DiffSelection("None", emitted[1])) = "All"

\* C13: every selection handed to getSelectionType was constructed with a
\* default include value of All or None, and getSelectionType does not
\* return Partial for a selection whose selectedLines is empty.
C13_DefaultNeverPartial ==
    call.op = "getSelectionType" =>
        /\ call.sel.include \in {"All", "None"}
        /\ Len(call.sel.selectedLines) = 0 => call.result # "Partial"

\* the flags of the displayed diff do not yet show the one toggle that the
\* last emitted map holds: that map differs from them in exactly line i
FirstToggleInFlight(i) ==
    /\ Len(emitted) = 1
    /\ MapKeys(emitted[1]) = SelectableIndices(state.diff)
    /\ \A k \in MapKeys(emitted[1]) :
            (MapGet(emitted[1], k) # LineAt(state.diff, k).selected) <=> (k = i)

\* C14: when a line j is toggled after another line i of the same
\* working-directory file, the map the second toggle emits holds for i the
\* value the first toggle set and for j its inverted value, also when the
\* reload that the first toggle triggers has not completed.
C14_NoLostToggle ==
    [][\A i, j \in SelectableIndices(state.diff) :
            (/\ i # j
             /\ props.onIncludeChanged
             /\ props.file.wd
             /\ FirstToggleInFlight(i)
             /\ onIncludeChanged(j)) =>
                /\ Len(emitted') = 1
                /\ MapGet(emitted'[1], i) = MapGet(emitted[1], i)
                /\ MapGet(emitted'[1], j) = ~LineAt(state.diff, j).selected]_vars

\* a step in which the rest of loadDiff ran for one of the pending requests
LoadCompleted ==
    \E i \in DOMAIN pending :
        /\ loadedFor' = pending[i]
        /\ pending' = RemoveAt(pending, i)

\* a step in which loadDiff replaced the diff by the empty one (lines 82-85)
DiffCleared == props'.file = NoFile /\ state'.diff = DiffModel(<<>>)

\* C15: a step that emits a selection map leaves the displayed diff, with
\* the flag of every line, and the props, with the file's selection map,
\* as they were; the displayed diff changes only in a step that completes
\* a diff load or that clears the diff, and the props only when new props
\* are received.
C15_ToggleNoLocalEffect ==
    [][/\ emitted' # emitted =>
            /\ Len(emitted') = 1
            /\ state' = state
            /\ props' = props
       /\ state' # state => LoadCompleted \/ DiffCleared
       /\ props' # props => loads' = loads + 1]_vars

\* a toggle has emitted a map for the displayed working-directory file
\* while the flags of the displayed diff and the file's selection map are
\* still those from before the toggle
C15_Witness ==
    /\ props.file.wd
    /\ pending = <<>>
    /\ loadedFor = Request(props.file, props.commit)
    /\ props.file.selection.selectedLines = EmptyMap
    /\ \E i \in SelectableIndices(state.diff) :
            /\ FirstToggleInFlight(i)
            /\ LineAt(state.diff, i).selected = (props.file.selection.include = "All")

\* the active file is absent or historical, or there is no callback
ToggleRejected == ~props.file.wd \/ ~props.onIncludeChanged

\* the absolute indices of the lines whose flag is set
SelectedIndices(diff) ==
    {i \in 0..(TotalLines(diff) - 1) : LineAt(diff, i).selected}

\* C16: while the active file is not a working-directory change, or there
\* is no onIncludeChanged callback, no step emits a map and a toggle
\* changes neither props, displayed diff nor pending requests; a load
\* that completes for a file that is not a working-directory change
\* displays the diff as getDiff returned it, no line flag set.
C16_ToggleRejectedOutsideWD ==
    [][/\ ToggleRejected => emitted' = emitted
       /\ \A rowIndex \in 0..TotalLines(state.diff) :
            (ToggleRejected /\ onIncludeChanged(rowIndex)) =>
                UNCHANGED <<props, state, pending, emitted>>
       /\ \A i \in DOMAIN pending, diff \in GetDiffResults :
            (~pending[i].file.wd /\ getDiffResolved(i, diff)) =>
                /\ state'.diff = diff
                /\ SelectedIndices(state'.diff) = {}]_vars

\* a historical file's diff is displayed, a line of it was toggled (the
\* console.error ran) and no map was ever emitted
C16_Witness ==
    /\ props.onIncludeChanged
    /\ props.file = FileChange("h")
    /\ loadedFor = Request(props.file, props.commit)
    /\ SelectableIndices(state.diff) # {}
    /\ SelectedIndices(state.diff) = {}
    /\ consoleError
    /\ emitted = <<>>

====
